---- MODULE Spec2Model ----
(***************************************************************************)
(* Model of the account service of backend/main.py and backend/database.py *)
(* (register, login, profile read/update, forgot-password, reset-password) *)
(* over the single users table, with the signed bearer tokens it issues    *)
(* and verifies.                                                           *)
(*                                                                         *)
(* Optional values (Python None / SQL NULL) are sequences of length <= 1:  *)
(* None is <<>>, a value v is <<v>>.                                       *)
(***************************************************************************)
EXTENDS Integers, Sequences, FiniteSets, TLC

VARIABLES users, now, session, link, resp, race

vars == <<users, now, session, link, resp, race>>

----------------------------------------------------------------------------
(* Bounds of the model *)

\* the clock is counted in ticks; a second has TicksPerSecond of them
TicksPerSecond == 2
\* the clock stops advancing after MaxMinutes minutes
MaxMinutes == 62
\* at most MaxFineTicks single-tick advances past a whole minute
MaxFineTicks == 2

(* Program constants *)
ACCESS_TOKEN_EXPIRE_MINUTES == 60
RESET_TOKEN_EXPIRE_MINUTES == 15
SecondsPerMinute == 60

None == <<>>
Some(v) == <<v>>

ProfileFields == <<"username", "age", "location", "phone", "language">>

\* pydantic model UpdateProfile: every field optional. The payload that
\* supplies the fields F, with the values of v
Payload(F, v) == [f \in DOMAIN v |-> IF f \in F THEN Some(v[f]) ELSE None]

NewValues ==
  [username |-> "v", age |-> 31, location |-> "NYC", phone |-> "555",
   language |-> "fr"]

\* payloads that supply a username or nothing
NamePatches(names) ==
  {Payload({}, NewValues)} \cup
  {Payload({"username"}, [NewValues EXCEPT !.username = n]) : n \in names}

\* payloads for every set of supplied fields
ProfilePatches ==
  {Payload(F, NewValues) : F \in SUBSET DOMAIN NewValues} \cup
  {Payload({"username"}, [NewValues EXCEPT !.username = "u"])}

----------------------------------------------------------------------------
(* Password hasher (passlib bcrypt): the digest embeds a random salt. The   *)
(* salt is modelled as fresh with respect to every digest in the store.     *)

DigestsOf(us) == {us[i].password : i \in 1..Len(us)}

\* pwd_context.hash: a digest no row of the store holds
get_password_hash(us, pw) ==
  [salt |-> CHOOSE n \in 0..Len(us) :
              /\ [salt |-> n, pw |-> pw] \notin DigestsOf(us)
              /\ \A m \in 0..(n - 1) : [salt |-> m, pw |-> pw] \in DigestsOf(us),
   pw |-> pw]

\* pwd_context.verify: the digest was produced from this plaintext
verify_password(plain, hashed) == hashed.pw = plain

----------------------------------------------------------------------------
(* Tokens (python-jose, HS256). wf: the string parses as a JWT; sig: the    *)
(* signature matches SECRET_KEY; sub, exp: the claims. kind and iat are not *)
(* part of the token: they record which endpoint issued it and at which     *)
(* tick, and ask the identifier a forgot-password request carried, for      *)
(* stating properties.                                                      *)

NowSec(t) == t \div TicksPerSecond

\* timedelta(minutes = m) in ticks
Minutes(m) == m * SecondsPerMinute * TicksPerSecond

\* jwt.encode converts the datetime exp to whole seconds (timegm)
create_access_token(sub, minutes, kind, ask) ==
  [wf |-> TRUE, sig |-> "ok", sub |-> sub,
   exp |-> NowSec(now + Minutes(minutes)), kind |-> kind, iat |-> now,
   ask |-> ask]

\* a decode that does not look at exp
jwt_decode_no_exp(t) == t.wf /\ t.sig = "ok"

\* a decode that rejects a token in the second its exp names
jwt_decode_strict(t) ==
  /\ t.wf
  /\ t.sig = "ok"
  /\ t.exp > NowSec(now)

\* jwt.decode: JWTError on a malformed token, a bad signature or exp < now
jwt_decode_ok(t) ==
  /\ t.wf
  /\ t.sig = "ok"
  /\ ~(t.exp < NowSec(now))

----------------------------------------------------------------------------
(* Credential store: the users table, in rowid order. email is UNIQUE.      *)
(* The nullable columns username, age, location, phone and language hold    *)
(* optional values.                                                         *)

Min(S) == CHOOSE x \in S : \A y \in S : x <= y

\* SELECT * FROM users WHERE email = ? OR username = ?  ... fetchone():
\* a scan of the table in rowid order, the first matching row or None
get_user_by_email_or_username(us, identifier) ==
  LET M == {i \in 1..Len(us) :
              us[i].email = identifier \/ us[i].username = Some(identifier)}
  IN IF M = {} THEN None ELSE Some(us[Min(M)])

\* SELECT * FROM users WHERE email = ?  ... fetchone()
find_by_email(us, email) ==
  LET M == {i \in 1..Len(us) : us[i].email = email}
  IN IF M = {} THEN None ELSE Some(us[Min(M)])

\* an insert into a table whose email column is not UNIQUE
insert_user_no_unique(us, username, hashed, email, age, location, phone, language) ==
  Some(Append(us, [id |-> Len(us) + 1, username |-> Some(username),
                   password |-> hashed, email |-> email, age |-> age,
                   location |-> location, phone |-> phone,
                   language |-> language]))

\* INSERT INTO users (...): id is the next rowid; IntegrityError (None) when
\* the email is already present
insert_user(us, username, hashed, email, age, location, phone, language) ==
  IF \E i \in 1..Len(us) : us[i].email = email
  THEN None
  ELSE Some(Append(us, [id |-> Len(us) + 1, username |-> Some(username),
                        password |-> hashed, email |-> email, age |-> age,
                        location |-> location, phone |-> phone,
                        language |-> language]))

\* the SET list built by update_profile: the fields of the payload that are
\* not None
SuppliedFields(payload) ==
  {ProfileFields[k] : k \in {j \in 1..Len(ProfileFields) :
                               payload[ProfileFields[j]] # None}}

\* an update that writes every field of the payload, None included
PatchRow_all(row, payload) ==
  [f \in DOMAIN row |-> IF f \in DOMAIN payload THEN payload[f] ELSE row[f]]

\* one row after UPDATE users SET f = ?, ... for the supplied fields
PatchRow(row, payload) ==
  [f \in DOMAIN row |->
     IF f \in SuppliedFields(payload) THEN payload[f] ELSE row[f]]

\* UPDATE users SET <fields> WHERE email = ?
update_fields(us, email, payload) ==
  [i \in 1..Len(us) |->
     IF us[i].email = email THEN PatchRow(us[i], payload) ELSE us[i]]

\* UPDATE users SET password = ? WHERE email = ?
replace_password(us, email, hashed) ==
  [i \in 1..Len(us) |->
     IF us[i].email = email THEN [us[i] EXCEPT !.password = hashed]
     ELSE us[i]]

----------------------------------------------------------------------------
(* Responses: the status code and detail/message of the HTTP response, the  *)
(* profile it carries, the token the request made the service issue, and    *)
(* whether a reset mail was dispatched.                                     *)
(* resp is the response in flight, with the request (req) it answers; the   *)
(* client reads it (Deliver) before it sends its next request.              *)

Response(op, req, status, detail) ==
  [op |-> op, req |-> req, status |-> status, detail |-> detail,
   token |-> None, body |-> None, notified |-> "none"]

Idle == Response("idle", <<>>, 0, "")

\* pydantic model RegisterUser
RegisterUser(username, email, password, age, location, phone, language) ==
  [username |-> username, email |-> email, password |-> password,
   age |-> age, location |-> location, phone |-> phone, language |-> language]

\* get_current_user: the dependency of both profile endpoints
get_current_user(us, token) ==
  IF ~jwt_decode_ok(token) THEN [status |-> 401, detail |-> "Invalid token", user |-> None]
  ELSE IF token.sub = "" THEN [status |-> 401, detail |-> "Invalid token", user |-> None]
  ELSE IF find_by_email(us, token.sub) = None
       THEN [status |-> 401, detail |-> "User not found", user |-> None]
  ELSE [status |-> 200, detail |-> "", user |-> find_by_email(us, token.sub)]

\* a login that tells an unknown identifier from a wrong password
authenticate_leaky(us, identifier, password) ==
  LET user == get_user_by_email_or_username(us, identifier)
  IN IF user = None
     THEN [status |-> 401, detail |-> "User not found", user |-> None]
     ELSE IF ~verify_password(password, user[1].password)
     THEN [status |-> 401, detail |-> "Invalid username/email or password", user |-> None]
     ELSE [status |-> 200, detail |-> "", user |-> user]

\* the checks of login: lookup by identifier, then the password
authenticate(us, identifier, password) ==
  LET user == get_user_by_email_or_username(us, identifier)
  IN IF user = None
     THEN [status |-> 401, detail |-> "Invalid username/email or password", user |-> None]
     ELSE IF ~verify_password(password, user[1].password)
     THEN [status |-> 401, detail |-> "Invalid username/email or password", user |-> None]
     ELSE [status |-> 200, detail |-> "", user |-> user]

\* the token checks of reset_password
decode_reset_token(token) ==
  IF ~jwt_decode_ok(token)
  THEN [status |-> 400, detail |-> "Invalid or expired token"]
  ELSE IF token.sub = "" THEN [status |-> 400, detail |-> "Invalid token"]
  ELSE [status |-> 200, detail |-> ""]

\* the projection returned by GET /profile
ProfileOf(u) ==
  [username |-> u.username, email |-> u.email, age |-> u.age,
   location |-> u.location, phone |-> u.phone, language |-> u.language]

\* Clients hold two tokens at most: session is the access token of the
\* login page (st.session_state.token), link the reset token of the last
\* reset mail kept (the token query parameter of the reset page). After t
\* was handed out the client stores it or keeps the one it has.
Retain(slot, t) == {slot, Some(t)}

\* what a client can present: a token it holds, a tampered copy, or garbage
Tampered(t) == [t EXCEPT !.sig = "bad"]
Malformed ==
  [wf |-> FALSE, sig |-> "bad", sub |-> "", exp |-> 0, kind |-> "none",
   iat |-> 0, ask |-> ""]
Held == {session[k] : k \in DOMAIN session} \cup {link[k] : k \in DOMAIN link}
Presentable == Held \cup {Tampered(t) : t \in Held} \cup {Malformed}

----------------------------------------------------------------------------
(* Concurrent requests. The endpoints are plain def functions, which the    *)
(* framework runs on the threads of a pool; each statement on the store is  *)
(* atomic and each handler opens a connection of its own. race holds what   *)
(* two such threads are doing: pc is the thread's position (idle, write:    *)
(* its lookup is done and its UPDATE is still to come, done: answered), req *)
(* the request, user the row its lookup returned, hashed the digest it      *)
(* computed. base (the store when the first of the requests began) and      *)
(* order (the threads in the order of their UPDATEs) are not state of the   *)
(* program: they are kept for stating properties.                           *)

Workers == {"w1", "w2"}

IdleWorker ==
  [pc |-> "idle", op |-> "none", req |-> <<>>, user |-> None, hashed |-> None,
   status |-> 0, detail |-> ""]

NoRace ==
  [base |-> <<>>, order |-> <<>>, w |-> [x \in Workers |-> IdleWorker]]

\* the first request of a race records the store it found
Begun == IF \A x \in Workers : race.w[x].pc = "idle"
         THEN [race EXCEPT !.base = users] ELSE race

\* the thread answers without a write
Answer(op, req, status, detail) ==
  [IdleWorker EXCEPT !.pc = "done", !.op = op, !.req = req,
                     !.status = status, !.detail = detail]

\* the digests the threads have computed, as rows beside those of the store:
\* a salt is fresh with respect to these as well
ComputedDigests ==
  LET P == {race.w[x].hashed[1] : x \in {y \in Workers : race.w[y].hashed # None}}
      q == CHOOSE f \in [1..Cardinality(P) -> P] : {f[i] : i \in DOMAIN f} = P
  IN [i \in 1..Cardinality(P) |-> [password |-> q[i]]]

\* an update that writes back the whole row of the lookup with the payload
\* applied
write_profile_stale(us, current_user, payload) ==
  [i \in 1..Len(us) |->
     IF us[i].email = current_user.email THEN PatchRow(current_user, payload)
     ELSE us[i]]

\* update_profile's UPDATE users SET <fields> WHERE email = current_user["email"]
write_profile(us, current_user, payload) ==
  update_fields(us, current_user.email, payload)

----------------------------------------------------------------------------
(* Endpoints *)

Init ==
  /\ users = <<>>
  /\ now = 0
  /\ session = None
  /\ link = None
  /\ resp = Idle
  /\ race = NoRace

register(username, email, password, age, location, phone, language) ==
  /\ resp = Idle
  /\ LET req == RegisterUser(username, email, password, age, location, phone,
                             language)
         r == insert_user(users, username, get_password_hash(users, password),
                          email, age, location, phone, language)
     IN /\ IF r = None
           THEN /\ resp' = Response("register", req, 400, "Email already registered")
                /\ users' = users
           ELSE /\ resp' = Response("register", req, 200, "User registered successfully")
                /\ users' = r[1]
        /\ UNCHANGED <<now, session, link, race>>

login(identifier, password) ==
  /\ resp = Idle
  /\ LET req == [username |-> identifier, password |-> password]
         a == authenticate(users, identifier, password)
     IN /\ IF a.status # 200
           THEN /\ resp' = Response("login", req, a.status, a.detail)
                /\ session' = session
           ELSE LET t == create_access_token(a.user[1].email,
                           ACCESS_TOKEN_EXPIRE_MINUTES, "access", "")
                IN /\ resp' = [Response("login", req, 200, "")
                                 EXCEPT !.token = Some(t)]
                   /\ session' \in Retain(session, t)
        /\ UNCHANGED <<users, now, link, race>>

get_profile(token) ==
  /\ resp = Idle
  /\ LET req == [token |-> token]
         cu == get_current_user(users, token)
     IN /\ IF cu.status # 200
           THEN resp' = Response("get_profile", req, cu.status, cu.detail)
           ELSE resp' = [Response("get_profile", req, 200, "")
                           EXCEPT !.body = Some(ProfileOf(cu.user[1]))]
        /\ UNCHANGED <<users, now, session, link, race>>

update_profile(token, payload) ==
  /\ resp = Idle
  /\ LET req == [token |-> token, payload |-> payload]
         cu == get_current_user(users, token)
     IN /\ IF cu.status # 200
           THEN /\ resp' = Response("update_profile", req, cu.status, cu.detail)
                /\ users' = users
           ELSE IF SuppliedFields(payload) = {}
           THEN /\ resp' = Response("update_profile", req, 200, "Nothing to update")
                /\ users' = users
           ELSE /\ resp' = Response("update_profile", req, 200,
                                    "Profile updated successfully")
                /\ users' = update_fields(users, cu.user[1].email, payload)
        /\ UNCHANGED <<now, session, link, race>>

\* send_reset_email swallows every SMTP failure: delivered or not, the
\* endpoint answers 200
forgot_password(email, delivered) ==
  /\ resp = Idle
  /\ LET req == [email |-> email]
         user == get_user_by_email_or_username(users, email)
     IN /\ IF user = None
           THEN /\ resp' = Response("forgot_password", req, 404, "Email not found")
                /\ link' = link
           ELSE LET t == create_access_token(user[1].email,
                           RESET_TOKEN_EXPIRE_MINUTES, "reset", email)
                IN /\ resp' = [Response("forgot_password", req, 200,
                                        "Password reset email sent")
                                 EXCEPT !.token = Some(t),
                                        !.notified = IF delivered THEN "sent"
                                                     ELSE "failed"]
                   /\ IF delivered THEN link' \in Retain(link, t)
                      ELSE link' = link
        /\ UNCHANGED <<users, now, session, race>>

reset_password(token, new_password) ==
  /\ resp = Idle
  /\ LET req == [token |-> token, new_password |-> new_password]
         d == decode_reset_token(token)
     IN /\ IF d.status # 200
           THEN /\ resp' = Response("reset_password", req, d.status, d.detail)
                /\ users' = users
           ELSE /\ resp' = Response("reset_password", req, 200,
                                    "Password reset successful")
                /\ users' = replace_password(users, token.sub,
                                             get_password_hash(users, new_password))
        /\ UNCHANGED <<now, session, link, race>>

\* the clock (datetime.utcnow) advances by d ticks
Advance(d) ==
  /\ resp = Idle
  /\ now + d <= Minutes(MaxMinutes)
  /\ d = 1 => (now % Minutes(1)) < MaxFineTicks
  /\ now' = now + d
  /\ UNCHANGED <<users, session, link, resp, race>>

\* the client reads the response
Deliver ==
  /\ resp # Idle
  /\ resp' = Idle
  /\ UNCHANGED <<users, now, session, link, race>>

\* update_profile on thread w, up to the return of its dependency
\* get_current_user
update_profile_lookup(w, token, payload) ==
  /\ race.w[w].pc = "idle"
  /\ LET req == [token |-> token, payload |-> payload]
         cu == get_current_user(users, token)
     IN race' = [Begun EXCEPT !.w[w] =
                   IF cu.status # 200
                   THEN Answer("update_profile", req, cu.status, cu.detail)
                   ELSE [IdleWorker EXCEPT !.pc = "write",
                                           !.op = "update_profile",
                                           !.req = req, !.user = cu.user]]
  /\ UNCHANGED <<users, now, session, link, resp>>

\* update_profile on thread w, from the body of the handler to its return
update_profile_write(w) ==
  /\ race.w[w].pc = "write"
  /\ race.w[w].op = "update_profile"
  /\ LET me == race.w[w]
     IN IF SuppliedFields(me.req.payload) = {}
        THEN /\ users' = users
             /\ race' = [race EXCEPT !.w[w].pc = "done", !.w[w].status = 200,
                                     !.w[w].detail = "Nothing to update"]
        ELSE /\ users' = write_profile(users, me.user[1], me.req.payload)
             /\ race' = [race EXCEPT !.w[w].pc = "done", !.w[w].status = 200,
                                     !.w[w].detail = "Profile updated successfully",
                                     !.order = Append(@, w)]
  /\ UNCHANGED <<now, session, link, resp>>

\* reset_password on thread w, up to the digest of the new password
reset_password_decode(w, token, new_password) ==
  /\ race.w[w].pc = "idle"
  /\ LET req == [token |-> token, new_password |-> new_password]
         d == decode_reset_token(token)
     IN race' = [Begun EXCEPT !.w[w] =
                   IF d.status # 200
                   THEN Answer("reset_password", req, d.status, d.detail)
                   ELSE [IdleWorker EXCEPT
                           !.pc = "write", !.op = "reset_password", !.req = req,
                           !.hashed = Some(get_password_hash(
                                             users \o ComputedDigests,
                                             new_password))]]
  /\ UNCHANGED <<users, now, session, link, resp>>

\* reset_password on thread w, from its UPDATE to its return
reset_password_write(w) ==
  /\ race.w[w].pc = "write"
  /\ race.w[w].op = "reset_password"
  /\ LET me == race.w[w]
     IN /\ users' = replace_password(users, me.req.token.sub, me.hashed[1])
        /\ race' = [race EXCEPT !.w[w].pc = "done", !.w[w].status = 200,
                                !.w[w].detail = "Password reset successful",
                                !.order = Append(@, w)]
  /\ UNCHANGED <<now, session, link, resp>>

\* the clients have read the answers of both threads, which are free again
Collect ==
  /\ \A x \in Workers : race.w[x].pc # "write"
  /\ \E x \in Workers : race.w[x].pc = "done"
  /\ race' = NoRace
  /\ UNCHANGED <<users, now, session, link, resp>>

\* one request, or a clock advance, with inputs drawn from the domain D
Step(D) ==
  \/ \E u \in D.usernames, e \in D.emails, p \in D.passwords, a \in D.ages,
        l \in D.locations, ph \in D.phones, la \in D.languages :
       register(u, e, p, a, l, ph, la)
  \/ \E i \in D.identifiers, p \in D.passwords : login(i, p)
  \/ \E t \in Presentable : get_profile(t)
  \/ \E t \in Presentable, pl \in D.patches : update_profile(t, pl)
  \/ \E e \in D.identifiers, dl \in BOOLEAN : forgot_password(e, dl)
  \/ \E t \in Presentable, p \in D.passwords : reset_password(t, p)
  \/ \E d \in D.steps : Advance(d)
  \/ Deliver

(* Input domains *)

\* one clock step to a time where the reset tokens issued so far have
\* expired and the access tokens have not, a second one to a time where
\* both have
HalfSteps == {Minutes(MaxMinutes) \div 2}

\* one clock step past the lifetime of every token issued so far
LongSteps == {Minutes(MaxMinutes)}

\* single ticks, and steps between the lifetimes of the two kinds of token
FineSteps ==
  {1, Minutes(RESET_TOKEN_EXPIRE_MINUTES),
   Minutes(ACCESS_TOKEN_EXPIRE_MINUTES - RESET_TOKEN_EXPIRE_MINUTES)}

\* two accounts whose usernames may collide with an email
Domain ==
  [emails |-> {"a", "b"}, usernames |-> {"b", "u"}, passwords |-> {"p", "q"},
   identifiers |-> {"a", "b", "u"},
   ages |-> {None}, locations |-> {None}, phones |-> {None},
   languages |-> {None}, steps |-> LongSteps,
   patches |-> NamePatches({"b", "u"})]

Next == Step(Domain)

Spec == Init /\ [][Next]_vars

\* profile attributes vary
ProfileDomain ==
  [emails |-> {"a", "b"}, usernames |-> {"u", "v"}, passwords |-> {"p"},
   identifiers |-> {"a"},
   ages |-> {None, Some(31)}, locations |-> {Some("NYC")},
   phones |-> {Some("555")}, languages |-> {Some("fr")},
   steps |-> LongSteps, patches |-> ProfilePatches]

NextProfile == Step(ProfileDomain)

SpecProfile == Init /\ [][NextProfile]_vars

\* an account may have the empty string as its email
TokenDomain ==
  [emails |-> {"", "a"}, usernames |-> {"u"}, passwords |-> {"p", "q"},
   identifiers |-> {"", "a", "u"},
   ages |-> {None}, locations |-> {None}, phones |-> {None},
   languages |-> {None}, steps |-> HalfSteps, patches |-> NamePatches({"u"})]

NextToken == Step(TokenDomain)

SpecToken == Init /\ [][NextToken]_vars

\* the clock advances by single ticks as well
ClockDomain ==
  [emails |-> {"", "a"}, usernames |-> {"a"}, passwords |-> {"p"},
   identifiers |-> {"", "a"},
   ages |-> {None}, locations |-> {None}, phones |-> {None},
   languages |-> {None}, steps |-> FineSteps, patches |-> NamePatches({"a"})]

NextClock == Step(ClockDomain)

SpecClock == Init /\ [][NextClock]_vars

\* registration, login and forgot-password (whose mail arrives), with
\* update_profile and reset_password running on two threads
StepConcurrent(D) ==
  \/ \E u \in D.usernames, e \in D.emails, p \in D.passwords, a \in D.ages,
        l \in D.locations, ph \in D.phones, la \in D.languages :
       register(u, e, p, a, l, ph, la)
  \/ \E i \in D.identifiers, p \in D.passwords : login(i, p)
  \/ \E e \in D.identifiers : forgot_password(e, TRUE)
  \/ \E w \in Workers, t \in Held \cup {Malformed}, pl \in D.patches :
       update_profile_lookup(w, t, pl)
  \/ \E w \in Workers : update_profile_write(w)
  \/ \E w \in Workers, t \in Held \cup {Malformed}, p \in D.resets :
       reset_password_decode(w, t, p)
  \/ \E w \in Workers : reset_password_write(w)
  \/ Collect
  \/ Deliver

\* payloads with overlapping and with disjoint sets of supplied fields
RacePatches ==
  {Payload({}, NewValues), Payload({"age"}, NewValues),
   Payload({"location", "phone"}, NewValues),
   Payload({"age", "location"}, [NewValues EXCEPT !.age = 32, !.location = "LA"])}

\* one account, requests that overlap in time
RaceDomain ==
  [emails |-> {"a"}, usernames |-> {"u"}, passwords |-> {"p"},
   resets |-> {"q", "r"}, identifiers |-> {"a"},
   ages |-> {None}, locations |-> {None}, phones |-> {None},
   languages |-> {None}, steps |-> LongSteps, patches |-> RacePatches]

NextConcurrent == StepConcurrent(RaceDomain)

SpecConcurrent == Init /\ [][NextConcurrent]_vars

----------------------------------------------------------------------------
(* Properties. req is the request a response answers, so a step whose       *)
(* resp' has op "login" is a login with the inputs resp'.req.               *)

\* the rows an identifier matches, by email or by username
Matches(us, i) ==
  {k \in 1..Len(us) : us[k].email = i \/ us[k].username = Some(i)}

\* the row with the given email
RowOf(us, e) == us[CHOOSE k \in 1..Len(us) : us[k].email = e]

HasEmail(us, e) == \E k \in 1..Len(us) : us[k].email = e

\* the plaintext a row's digest was produced from
PlaintextOf(row) == row.password.pw

\* what the verifier of the profile endpoints makes of a token
VerifiedSubject(us, t) ==
  LET cu == get_current_user(us, t)
  IN IF cu.status = 200 THEN Some(cu.user[1].email) ELSE None

\* a token as the service issued it
Untampered(t) == t.wf /\ t.sig = "ok"

\* the lifetime the token was issued with, in ticks
Lifetime(t) ==
  IF t.kind = "access" THEN Minutes(ACCESS_TOKEN_EXPIRE_MINUTES)
  ELSE Minutes(RESET_TOKEN_EXPIRE_MINUTES)

\* C1: a login with the email of a persisted user and the plaintext of that
\* user's digest returns a token, and the token verifies with that email as
\* its subject.
C1_LoginCorrectEmail ==
  [][(/\ resp'.op = "login"
      /\ \E k \in 1..Len(users) :
           /\ users[k].email = resp'.req.username
           /\ PlaintextOf(users[k]) = resp'.req.password)
     => /\ resp'.status = 200
        /\ resp'.token # None
        /\ VerifiedSubject(users', resp'.token[1]) = Some(resp'.req.username)]_vars

\* no two rows share an email
EmailsUnique(us) ==
  \A j, k \in 1..Len(us) : us[j].email = us[k].email => j = k

\* C2: a register with an email that is already present is refused with
\* 400 "Email already registered" and leaves the store as it was (no row
\* added, every field of every row unchanged); no two rows ever share an
\* email.
C2_DuplicateEmail ==
  [][/\ EmailsUnique(users')
     /\ (resp'.op = "register" /\ HasEmail(users, resp'.req.email))
        => /\ resp'.status = 400
           /\ resp'.detail = "Email already registered"
           /\ users' = users]_vars

\* a register was refused whose username and age differ from those of the
\* row that holds its email
C2_Witness ==
  /\ resp.op = "register" /\ resp.status = 400
  /\ HasEmail(users, resp.req.email)
  /\ RowOf(users, resp.req.email).username # Some(resp.req.username)
  /\ RowOf(users, resp.req.email).age # resp.req.age

\* C3: after forgot-password for the email e of a persisted user issued a
\* reset token and reset-password accepted that token with a new password
\* (different from the old one), a login with e and the new password
\* succeeds and a login with e and the old password is refused with 401.
C3_ResetFlow ==
  [][(/\ resp'.op = "reset_password"
      /\ resp'.status = 200
      /\ resp'.req.token.kind = "reset"
      /\ resp'.req.token.ask = resp'.req.token.sub
      /\ HasEmail(users, resp'.req.token.sub))
     => LET e == resp'.req.token.sub
            pn == resp'.req.new_password
            po == PlaintextOf(RowOf(users, e))
        IN /\ authenticate(users', e, pn).status = 200
           /\ po # pn => authenticate(users', e, po).status = 401]_vars

\* C4: forgot-password answers 404 exactly when no row has the given email;
\* then no token is issued and no mail is dispatched; a success means some
\* row has that email.
C4_ForgotNotFoundIffNoEmail ==
  [][resp'.op = "forgot_password"
     => /\ (resp'.status = 404) <=> ~HasEmail(users, resp'.req.email)
        /\ resp'.status = 404
             => (resp'.token = None /\ resp'.notified = "none" /\ link' = link)
        /\ resp'.status = 200 => HasEmail(users, resp'.req.email)]_vars

\* what each of the two verifiers makes of a token at the current time
AcceptedByProfile(t) == get_current_user(users, t).status = 200

AcceptedByReset(t) == decode_reset_token(t).status = 200

\* a held token whose subject is the non-empty email of a persisted row
Issued(t) == t \in Held /\ t.sub # "" /\ HasEmail(users, t.sub)

\* C5 as the code has it: the expiry is stored in whole seconds and a token
\* is refused only once the current whole second exceeds it, so a token
\* issued at t0 with lifetime t is accepted by its verifier while
\* floor(now) <= floor(t0 + t) in seconds, which includes the instant
\* t0 + t and the rest of that second, and is refused from the next whole
\* second on; the lifetime is 60 minutes for a login token and 15 minutes
\* for a reset token. A token whose subject is the empty string is refused
\* at every time.
C5_ExpiryWholeSeconds ==
  \A t \in Held :
    /\ t.exp = NowSec(t.iat + Lifetime(t))
    /\ t.kind = "access"
         => (AcceptedByProfile(t) <=> (NowSec(now) <= t.exp /\ t.sub # ""))
    /\ t.kind = "reset"
         => (AcceptedByReset(t) <=> (NowSec(now) <= t.exp /\ t.sub # ""))

\* C5 as stated: accepted at every time strictly before t0 + t and refused
\* at every time after t0 + t.
C5_ExpiryAsStated ==
  \A t \in Held :
    Issued(t) =>
      LET accepted == IF t.kind = "access" THEN AcceptedByProfile(t)
                      ELSE AcceptedByReset(t)
      IN /\ now < t.iat + Lifetime(t) => accepted
         /\ now > t.iat + Lifetime(t) => ~accepted

\* a login token and a reset token are both still accepted after their
\* lifetime has passed
C5_Witness ==
  /\ \E t \in Held :
       /\ Issued(t) /\ t.kind = "access"
       /\ now > t.iat + Lifetime(t) /\ AcceptedByProfile(t)
  /\ \E t \in Held :
       /\ Issued(t) /\ t.kind = "reset"
       /\ now > t.iat + Lifetime(t) /\ AcceptedByReset(t)

\* C6: a token that a login with email e returned at t0 is accepted by
\* get-profile at every time before t0 + 60 minutes, whatever happened to
\* the account in between, and the profile returned is that of the row with
\* email e.
C6_NoRevocation ==
  [][(/\ resp'.op = "get_profile"
      /\ Untampered(resp'.req.token)
      /\ resp'.req.token.kind = "access"
      /\ now < resp'.req.token.iat + Lifetime(resp'.req.token))
     => /\ resp'.status = 200
        /\ HasEmail(users, resp'.req.token.sub)
        /\ resp'.body = Some(ProfileOf(RowOf(users, resp'.req.token.sub)))]_vars

\* C6 for accounts whose email is not the empty string: the login token is
\* accepted by get-profile until it expires, also after the password was
\* reset, other logins happened and the profile was changed.
C6_NoRevocationNonEmptyEmail ==
  [][(/\ resp'.op = "get_profile"
      /\ Untampered(resp'.req.token)
      /\ resp'.req.token.kind = "access"
      /\ resp'.req.token.sub # ""
      /\ now < resp'.req.token.iat + Lifetime(resp'.req.token))
     => /\ resp'.status = 200
        /\ HasEmail(users, resp'.req.token.sub)
        /\ resp'.body = Some(ProfileOf(RowOf(users, resp'.req.token.sub)))]_vars

\* get-profile accepted a login token that was issued before the account's
\* password was reset
C6_Witness ==
  /\ resp.op = "get_profile" /\ resp.status = 200
  /\ resp.req.token.kind = "access"
  /\ HasEmail(users, resp.req.token.sub)
  /\ PlaintextOf(RowOf(users, resp.req.token.sub)) = "q"

\* C7: an update-profile of an authenticated user u with the supplied
\* fields F sets u's fields in F to the supplied values and leaves every
\* other field of u (id, email and password digest among them), every other
\* row and the number of rows unchanged; with F empty it only answers
\* "Nothing to update".
C7_UpdateFrame ==
  [][(resp'.op = "update_profile" /\ AcceptedByProfile(resp'.req.token))
     => LET e == resp'.req.token.sub
            pl == resp'.req.payload
            F == {f \in DOMAIN pl : pl[f] # None}
        IN /\ resp'.status = 200
           /\ Len(users') = Len(users)
           /\ \A k \in 1..Len(users) :
                IF users[k].email = e
                THEN \A f \in DOMAIN users[k] :
                       users'[k][f] = IF f \in F THEN pl[f] ELSE users[k][f]
                ELSE users'[k] = users[k]
           /\ F = {} => (users' = users /\ resp'.detail = "Nothing to update")
           /\ F # {} => resp'.detail = "Profile updated successfully"]_vars

\* an update with some fields supplied and some omitted changed the row of
\* the second of two users
C7_Witness ==
  /\ resp.op = "update_profile" /\ resp.status = 200
  /\ Len(users) = 2
  /\ users[2].email = resp.req.token.sub
  /\ resp.req.payload.age # None
  /\ resp.req.payload.location = None
  /\ users[2].age = resp.req.payload.age
  /\ users[2].location # None

\* C8: a login token is accepted by reset-password whenever the profile
\* endpoints accept it, and the reset then replaces the digest of the
\* token's subject; a reset token is accepted by the profile endpoints
\* until it expires; no verifier's decision depends on which endpoint
\* issued the token.
C8_TokensInterchangeable ==
  [][/\ \A t \in Held :
          /\ t.kind = "access" => (AcceptedByProfile(t) <=> AcceptedByReset(t))
          /\ (t.kind = "reset" /\ now < t.iat + Lifetime(t))
               => AcceptedByProfile(t)
          /\ \A k \in {"access", "reset"} :
               /\ AcceptedByProfile([t EXCEPT !.kind = k]) <=> AcceptedByProfile(t)
               /\ AcceptedByReset([t EXCEPT !.kind = k]) <=> AcceptedByReset(t)
     /\ (/\ resp'.op = "reset_password"
         /\ resp'.req.token.kind = "access"
         /\ AcceptedByProfile(resp'.req.token))
        => /\ resp'.status = 200
           /\ RowOf(users', resp'.req.token.sub).password
                # RowOf(users, resp'.req.token.sub).password]_vars

\* C8 for accounts whose email is not the empty string.
C8_TokensInterchangeableNonEmptyEmail ==
  [][/\ \A t \in Held :
          /\ t.kind = "access" => (AcceptedByProfile(t) <=> AcceptedByReset(t))
          /\ (t.kind = "reset" /\ t.sub # "" /\ now < t.iat + Lifetime(t))
               => AcceptedByProfile(t)
          /\ \A k \in {"access", "reset"} :
               /\ AcceptedByProfile([t EXCEPT !.kind = k]) <=> AcceptedByProfile(t)
               /\ AcceptedByReset([t EXCEPT !.kind = k]) <=> AcceptedByReset(t)
     /\ (/\ resp'.op = "reset_password"
         /\ resp'.req.token.kind = "access"
         /\ AcceptedByProfile(resp'.req.token))
        => /\ resp'.status = 200
           /\ RowOf(users', resp'.req.token.sub).password
                # RowOf(users, resp'.req.token.sub).password]_vars

\* reset-password accepted a login token while the profile endpoints accept
\* the reset token the client holds
C8_Witness ==
  /\ resp.op = "reset_password" /\ resp.status = 200
  /\ resp.req.token.kind = "access"
  /\ link # None /\ link[1].kind = "reset" /\ AcceptedByProfile(link[1])

\* a token the verifiers refuse: not decodable, bad signature, expired, or
\* without a subject
InvalidToken(t) ==
  \/ ~t.wf
  \/ t.sig # "ok"
  \/ t.exp < NowSec(now)
  \/ t.sub = ""

\* C9: a request that presents a token which is malformed, tampered with,
\* expired or without a subject changes no row; the profile endpoints
\* answer it with 401 and reset-password with 400.
C9_InvalidTokenNeverWrites ==
  [][(/\ resp'.op \in {"get_profile", "update_profile", "reset_password"}
      /\ InvalidToken(resp'.req.token))
     => /\ users' = users
        /\ resp'.status = IF resp'.op = "reset_password" THEN 400 ELSE 401]_vars

\* an expired token that was issued by the service was presented to a
\* writing endpoint and refused
C9_Witness ==
  /\ resp.op \in {"update_profile", "reset_password"}
  /\ Untampered(resp.req.token)
  /\ resp.req.token.sub # ""
  /\ resp.req.token.exp < NowSec(now)
  /\ HasEmail(users, resp.req.token.sub)
  /\ resp.status \in {400, 401}

\* C10: a login that fails answers 401 "Invalid username/email or password"
\* with nothing else in the response and no change of state, whether or not
\* the identifier matches a row.
C10_LoginFailuresIndistinguishable ==
  [][(resp'.op = "login" /\ resp'.status # 200)
     => /\ resp' = [Response("login", resp'.req, 401,
                             "Invalid username/email or password")
                      EXCEPT !.token = None]
        /\ users' = users /\ session' = session /\ link' = link
        /\ now' = now]_vars

\* a login failed on the password of an existing user
C10_Witness ==
  /\ resp.op = "login" /\ resp.status = 401
  /\ Matches(users, resp.req.username) # {}

Max(S) == CHOOSE x \in S : \A y \in S : y <= x

\* the email the UPDATE of thread x names
Target(x) ==
  IF race.w[x].op = "update_profile" THEN race.w[x].user[1].email
  ELSE race.w[x].req.token.sub

\* the columns the UPDATE of thread x sets
Written(x) ==
  IF race.w[x].op = "update_profile"
  THEN {f \in DOMAIN race.w[x].req.payload : race.w[x].req.payload[f] # None}
  ELSE {"password"}

\* the value the UPDATE of thread x gives the column f
Supplied(x, f) ==
  IF race.w[x].op = "update_profile" THEN race.w[x].req.payload[f]
  ELSE race.w[x].hashed[1]

\* the value of column f of the row with email e after the writes so far:
\* that of the last write to e which included f, else the value it had when
\* the requests began
Expected(row, f) ==
  LET W == {i \in 1..Len(race.order) :
              /\ Target(race.order[i]) = row.email
              /\ f \in Written(race.order[i])}
  IN IF W = {} THEN row[f] ELSE Supplied(race.order[Max(W)], f)

\* C11: in every interleaving of the lookup and write steps of two
\* concurrent requests (update-profile or reset-password), each field of
\* each row holds the value supplied by the last write to that row which
\* included the field, and the value it had before the requests when no
\* write included it; two writes to the same user with disjoint sets of
\* fields both take full effect, whatever the lookups had returned.
C11_LastWriterWins ==
  /\ Len(users) >= Len(race.base)
  /\ \A k \in 1..Len(race.base) :
       \A f \in DOMAIN race.base[k] : users[k][f] = Expected(race.base[k], f)
  /\ \A x, y \in Workers :
       (/\ race.order \in {<<x, y>>, <<y, x>>}
        /\ x # y
        /\ Target(x) = Target(y)
        /\ Written(x) \cap Written(y) = {}
        /\ HasEmail(users, Target(x)))
       => \A f \in Written(x) : RowOf(users, Target(x))[f] = Supplied(x, f)

\* two profile updates of one user have both been written; the second
\* writer had looked the user up before the first wrote, it overwrote a
\* field of the first and left another field of the first in place
C11_Witness ==
  \E x, y \in Workers :
    /\ race.order = <<x, y>>
    /\ race.w[x].op = "update_profile" /\ race.w[y].op = "update_profile"
    /\ race.w[x].pc = "done" /\ race.w[y].pc = "done"
    /\ Target(x) = Target(y)
    /\ Supplied(x, "age") # None /\ Supplied(y, "age") # None
    /\ Supplied(x, "age") # Supplied(y, "age")
    /\ Supplied(x, "location") # None /\ Supplied(y, "location") = None
    /\ race.w[y].user[1].age # Supplied(x, "age")
    /\ RowOf(users, Target(x)).age = Supplied(y, "age")
    /\ RowOf(users, Target(x)).location = Supplied(x, "location")

====
